---------------------------- MODULE Spec2Model ----------------------------
(***************************************************************************)
(* A model of src/src/aead.c: the AEAD record layer (TCP stream codec,     *)
(* UDP one-shot codec, salt replay guard).                                 *)
(*                                                                         *)
(* Bytes are modelled as tagged tuples:                                    *)
(*   <<"b", v>>          a data byte of value v (plaintext, salt, length)  *)
(*   <<"c", [k,n,m], 1>> the first byte of the AEAD output for message m   *)
(*                       under key k and nonce n                           *)
(*   <<"d", i>>          byte i > 1 of an AEAD output                      *)
(*   <<"x", b, 0, 0>>    byte b with a bit flipped in transit              *)
(***************************************************************************)
EXTENDS Integers, Sequences, FiniteSets, TLC

VARIABLES
    method,     \* cipher->method of the master cipher
    remote,     \* TRUE iff built with MODULE_REMOTE (server role)
    crashed,    \* TRUE once an assert has aborted the process
    ectx,       \* the encrypt-side cipher_ctx_t
    dctx,       \* the decrypt-side cipher_ctx_t of every session
    guard,      \* the salts held by the replay guard (fs_sbf_*)
    wire,       \* the bytes aead_encrypt has returned so far, in order
    sent,       \* the plaintexts given to aead_encrypt so far, joined
    nchunks,    \* the aead_encrypt calls so far that had a non-empty plaintext
    tamper,     \* 0, or the offset of the wire byte flipped in transit
    fed,        \* per session: how many wire bytes were given to aead_decrypt
    plain,      \* per session: the buffers aead_decrypt returned with OK, joined
    lastEnc,    \* what the last aead_encrypt call did
    lastDec,    \* per session: what its last aead_decrypt call did
    dgrams,     \* the datagrams aead_encrypt_all has produced, with their plaintext
    accepted,   \* the datagrams aead_decrypt_all has accepted
    lastAll,    \* what the last aead_decrypt_all call did
    opened,     \* per session: the chunks aead_decrypt has opened so far
    consumed,   \* per session: the bytes of the chunks aead_decrypt has popped so far
    lastRel,    \* what the last aead_ctx_release call was given and left
    thr         \* per session: where its thread stands between guard check and add

vars == <<method, remote, crashed, ectx, dctx, guard, wire, sent, nchunks, tamper, fed,
          plain, lastEnc, lastDec, dgrams, accepted, lastAll, opened, consumed, lastRel, thr>>

---------------------------------------------------------------------------
(* Bounds of the model *)

\* plaintext bytes the sender passes per run, in buffers of any length
MaxBytes == 3
\* longest segment fed to aead_decrypt, besides "everything received"
MaxSeg == 2
\* decrypt sessions of the replay scenario
NumSess == 2
\* aead_encrypt_all calls per run
MaxDgrams == 1

---------------------------------------------------------------------------
(* Program constants *)

\* return codes, and the outcome of a call that a failed assert aborted
CRYPTO_OK == "OK"
CRYPTO_NEED_MORE == "NEED_MORE"
CRYPTO_ERROR == "ERROR"
ABORTED == "ABORTED"

CHACHA20POLY1305 == 3

CHUNK_SIZE_LEN == 2
CHUNK_SIZE_MASK == 16383

\* crypto_generichash_blake2b_SALTBYTES: the salt bytes the hash reads
SALTBYTES == 16

\* the width of the uint16_t plen parameter of aead_chunk_encrypt
UINT16_RANGE == 65536

supported_aead_ciphers_nonce_size == <<12, 12, 12, 8, 12, 24>>
supported_aead_ciphers_key_size == <<16, 24, 32, 32, 32, 32>>
supported_aead_ciphers_tag_size == <<16, 16, 16, 16, 16, 16>>

AEAD_CIPHER_NUM == Len(supported_aead_ciphers_key_size)

Methods == 0 .. (AEAD_CIPHER_NUM - 1)

\* cipher->key_len, cipher->nonce_len, cipher->tag_len as aead_key_init sets them
key_len(m) == supported_aead_ciphers_key_size[m + 1]
nonce_len(m) == supported_aead_ciphers_nonce_size[m + 1]
tag_len(m) == supported_aead_ciphers_tag_size[m + 1]

---------------------------------------------------------------------------
(* Bytes and buffers *)

Byte(v) == <<"b", v>>
Flip(b) == <<"x", b, 0, 0>>

Min(a, b) == IF a < b THEN a ELSE b

Take(s, n) == SubSeq(s, 1, Min(n, Len(s)))
Drop(s, n) == SubSeq(s, n + 1, Len(s))

\* memset(p, 0, n)
Zeros(n) == [i \in 1 .. n |-> 0]
ZeroBytes(n) == [i \in 1 .. n |-> Byte(0)]

\* rand_bytes(salt, n): salt number id of the random source
RandBytes(id, n) == [i \in 1 .. n |-> Byte(100 * id + i)]

\* cipher->key: the master key aead_derive_key made from the password
MasterKey == <<"master", 1>>
ZeroKey == <<"zero", 0>>

\* htons(v) copied into len_buf, and ntohs of len_buf
Htons(v) == <<Byte((v \div 256) % 256), Byte(v % 256)>>
Ntohs(lb) == lb[1][2] * 256 + lb[2][2]

\* sodium_increment(n, nlen): little-endian increment with carry
RECURSIVE IncFrom(_, _)
IncFrom(n, i) ==
    IF i > Len(n) THEN n
    ELSE IF n[i] = 255 THEN IncFrom([n EXCEPT ![i] = 0], i + 1)
    ELSE [n EXCEPT ![i] = n[i] + 1]

sodium_increment(n) == IncFrom(n, 1)

\* the little-endian nonce that counts v, for v < 65536
NonceOf(v, nlen) ==
    [i \in 1 .. nlen |-> IF i = 1 THEN v % 256 ELSE IF i = 2 THEN (v \div 256) % 256 ELSE 0]

---------------------------------------------------------------------------
(* The AEAD primitive, ideal: the output for (k, n, m) is Len(m) + tlen    *)
(* bytes that no other (k, n, m) produces, and opening succeeds only on    *)
(* exactly such an output. Its first byte stands for what makes the output *)
(* unique; the others are told apart by their offset alone, as two real    *)
(* ciphertexts may agree on a byte too.                                    *)

aead_cipher_encrypt(k, n, m, tlen) ==
    [i \in 1 .. (Len(m) + tlen) |->
        IF i = 1 THEN <<"c", [k |-> k, n |-> n, m |-> m], 1>> ELSE <<"d", i>>]

\* [err, p]: err = 0 and the plaintext, or err # 0
aead_cipher_decrypt(k, n, c, tlen) ==
    IF /\ Len(c) >= tlen
       /\ Len(c) >= 1
       /\ c[1][1] = "c"
       /\ c[1][2].k = k
       /\ c[1][2].n = n
       /\ c = aead_cipher_encrypt(k, n, c[1][2].m, tlen)
    THEN [err |-> 0, p |-> c[1][2].m]
    ELSE [err |-> 1, p |-> <<>>]

\* crypto_generichash_blake2b_salt_personal(subkey, key_len, NULL, 0, key, key_len,
\* salt, SUBKEY_APPID): an ideal hash of the key and of the SALTBYTES bytes it reads
blake2b_salt_personal(key, salt) == <<"sub", key, Take(salt, SALTBYTES)>>

---------------------------------------------------------------------------
(* Cipher contexts *)

\* aead_ctx_init(cipher, ctx, enc): enc # 0 draws the salt, number id
aead_ctx_init(m, enc, id) ==
    [ init   |-> FALSE,
      salt   |-> IF enc THEN RandBytes(id, key_len(m)) ELSE ZeroBytes(key_len(m)),
      subkey |-> ZeroKey,
      nonce  |-> Zeros(nonce_len(m)),
      alloc  |-> FALSE,
      chunk  |-> <<>>,
      evp    |-> m < CHACHA20POLY1305 ]

\* a faulty variant: the salt of the context is not given to the hash
aead_cipher_ctx_set_subkey_no_salt(m, ctx) ==
    [ctx EXCEPT !.subkey = blake2b_salt_personal(MasterKey, ZeroBytes(key_len(m))),
                !.nonce = Zeros(nonce_len(m))]

\* aead_cipher_ctx_set_subkey: derive the subkey from ctx->salt, zero the nonce
aead_cipher_ctx_set_subkey(m, ctx) ==
    [ctx EXCEPT !.subkey = blake2b_salt_personal(MasterKey, ctx.salt),
                !.nonce = Zeros(nonce_len(m))]

---------------------------------------------------------------------------
(* TCP encrypt *)

\* a faulty variant: the payload is encrypted before the nonce is advanced
aead_chunk_encrypt_late_increment(m, subkey, p, n, plen) ==
    IF plen > CHUNK_SIZE_MASK
    THEN [err |-> ABORTED, c |-> <<>>, n |-> n]
    ELSE LET real_plen == Min(plen, CHUNK_SIZE_MASK)
             len_buf   == Htons(real_plen)
             c1        == aead_cipher_encrypt(subkey, n, len_buf, tag_len(m))
             c2        == aead_cipher_encrypt(subkey, n, Take(p, real_plen), tag_len(m))
             n2        == sodium_increment(sodium_increment(n))
         IN  [err |-> CRYPTO_OK, c |-> c1 \o c2, n |-> n2]

\* a faulty variant: the nonce is not advanced after the payload
aead_chunk_encrypt_one_increment(m, subkey, p, n, plen) ==
    IF plen > CHUNK_SIZE_MASK
    THEN [err |-> ABORTED, c |-> <<>>, n |-> n]
    ELSE LET real_plen == Min(plen, CHUNK_SIZE_MASK)
             len_buf   == Htons(real_plen)
             c1        == aead_cipher_encrypt(subkey, n, len_buf, tag_len(m))
             n1        == sodium_increment(n)
             c2        == aead_cipher_encrypt(subkey, n1, Take(p, real_plen), tag_len(m))
         IN  [err |-> CRYPTO_OK, c |-> c1 \o c2, n |-> n1]

\* aead_chunk_encrypt(ctx, p, c, n, plen) with plen already cut to uint16_t:
\* [err, c, n] where c is what was written at the output position
aead_chunk_encrypt(m, subkey, p, n, plen) ==
    IF plen > CHUNK_SIZE_MASK
    THEN [err |-> ABORTED, c |-> <<>>, n |-> n]
    ELSE LET real_plen == Min(plen, CHUNK_SIZE_MASK)
             len_buf   == Htons(real_plen)
             c1        == aead_cipher_encrypt(subkey, n, len_buf, tag_len(m))
             n1        == sodium_increment(n)
             c2        == aead_cipher_encrypt(subkey, n1, Take(p, real_plen), tag_len(m))
             n2        == sodium_increment(n1)
         IN  [err |-> CRYPTO_OK, c |-> c1 \o c2, n |-> n2]

\* a buffer_t: its len field and the bytes of its data the model keeps. A call
\* that sets len beyond what it wrote leaves data shorter than len: the bytes
\* after Len(data) are whatever the scratch memory held
Buf(bytes) == [len |-> Len(bytes), data |-> bytes]

\* a faulty variant: init is not looked at
salt_ofst_every_call(m, ctx) == key_len(m)

\* the room aead_encrypt leaves for the salt: key_len until init is set
salt_ofst(m, ctx) == IF ctx.init THEN 0 ELSE key_len(m)

\* a faulty variant: the subkey is derived, and the nonce zeroed, on every call
aead_encrypt_rekey(m, ctx, plaintext) ==
    IF plaintext.len = 0
    THEN [res |-> CRYPTO_OK, buf |-> plaintext, ctx |-> ctx, chunks |-> 0]
    ELSE LET out_len   == salt_ofst(m, ctx) + 2 * tag_len(m) + plaintext.len
                          + CHUNK_SIZE_LEN
             head      == Take(ctx.salt, salt_ofst(m, ctx))
             ctx1      == [aead_cipher_ctx_set_subkey(m, ctx) EXCEPT !.init = TRUE]
             r         == aead_chunk_encrypt(m, ctx1.subkey, plaintext.data, ctx1.nonce,
                                             plaintext.len % UINT16_RANGE)
             ctx2      == [ctx1 EXCEPT !.nonce = r.n]
         IN  IF r.err # CRYPTO_OK
             THEN [res |-> r.err, buf |-> plaintext, ctx |-> ctx2, chunks |-> 0]
             ELSE [res |-> CRYPTO_OK, buf |-> [len |-> out_len, data |-> head \o r.c],
                   ctx |-> ctx2, chunks |-> 1]

\* aead_encrypt(plaintext, cipher_ctx, capacity): [res, buf, ctx, chunks]
\* buf is the caller's buffer_t after the call, chunks the chunks written
aead_encrypt(m, ctx, plaintext) ==
    IF plaintext.len = 0
    THEN [res |-> CRYPTO_OK, buf |-> plaintext, ctx |-> ctx, chunks |-> 0]
    ELSE LET out_len   == salt_ofst(m, ctx) + 2 * tag_len(m) + plaintext.len
                          + CHUNK_SIZE_LEN
             head      == Take(ctx.salt, salt_ofst(m, ctx))
             ctx1      == IF ctx.init THEN ctx
                          ELSE [aead_cipher_ctx_set_subkey(m, ctx) EXCEPT !.init = TRUE]
             r         == aead_chunk_encrypt(m, ctx1.subkey, plaintext.data, ctx1.nonce,
                                             plaintext.len % UINT16_RANGE)
             ctx2      == [ctx1 EXCEPT !.nonce = r.n]
         IN  IF r.err # CRYPTO_OK
             THEN [res |-> r.err, buf |-> plaintext, ctx |-> ctx2, chunks |-> 0]
             ELSE [res |-> CRYPTO_OK, buf |-> [len |-> out_len, data |-> head \o r.c],
                   ctx |-> ctx2, chunks |-> 1]

---------------------------------------------------------------------------
(* The salt replay guard (sbf.h): an exact set of the salts added, and the *)
(* marks of a guard whose calls fail from now on (the < 0 of its interface) *)

\* a guard that holds this mark answers every check with an error
CheckFails == << <<"e", 1>> >>

\* a guard that holds this mark answers every add with an error, and adds nothing
AddFails == << <<"e", 2>> >>

fs_sbf_check(g, salt) == IF CheckFails \in g THEN -1 ELSE IF salt \in g THEN 1 ELSE 0
fs_sbf_add(g, salt) == IF AddFails \in g THEN g ELSE g \cup {salt}

---------------------------------------------------------------------------
(* TCP decrypt *)

\* what one aead_chunk_decrypt invocation did, besides its results: the buffer
\* length it found, the nonce it gave the AEAD for the length (n) and for the
\* payload (pn), and how the two decryptions went
ChunkTrace(clen, n, pn, lenTried, lenOk, mlen, payTried, payOk) ==
    [clen |-> clen, n |-> n, pn |-> pn, lenTried |-> lenTried, lenOk |-> lenOk,
     mlen |-> mlen, payTried |-> payTried, payOk |-> payOk]

\* too few bytes to hold a chunk at all
ChunkTooShort(m, clen) == clen <= 2 * tag_len(m) + CHUNK_SIZE_LEN

\* a faulty variant: the tag of the length is left out of the count
chunk_len_one_tag(m, mlen) == tag_len(m) + CHUNK_SIZE_LEN + mlen

\* the bytes of a chunk whose payload is mlen long
chunk_len(m, mlen) == 2 * tag_len(m) + CHUNK_SIZE_LEN + mlen

\* a faulty variant: a chunk that lacks its last byte passes for whole
ChunkIncomplete_off_by_one(clen, cl) == clen + 1 < cl

\* the chunk is not yet wholly in the buffer
ChunkIncomplete(clen, cl) == clen < cl

\* a faulty variant: a length of zero is let through
MlenInvalid_too_big_only(mlen) == mlen > CHUNK_SIZE_MASK

\* the decoded length is refused
MlenInvalid(mlen) == mlen > CHUNK_SIZE_MASK \/ mlen = 0

\* a faulty variant: the nonce is advanced as soon as the length was opened,
\* also when the call then waits for the rest of the chunk
aead_chunk_decrypt_eager(m, subkey, c, n) ==
    LET tlen == tag_len(m)
        clen == Len(c)
    IN
    IF ChunkTooShort(m, clen)
    THEN [err |-> CRYPTO_NEED_MORE, p |-> <<>>, c |-> c, n |-> n,
          tr |-> ChunkTrace(clen, n, n, FALSE, FALSE, 0, FALSE, FALSE)]
    ELSE
    LET d1 == aead_cipher_decrypt(subkey, n, SubSeq(c, 1, CHUNK_SIZE_LEN + tlen), tlen)
    IN
    IF d1.err # 0
    THEN [err |-> CRYPTO_ERROR, p |-> <<>>, c |-> c, n |-> n,
          tr |-> ChunkTrace(clen, n, n, TRUE, FALSE, 0, FALSE, FALSE)]
    ELSE IF Len(d1.p) # CHUNK_SIZE_LEN
    THEN [err |-> ABORTED, p |-> <<>>, c |-> c, n |-> n,
          tr |-> ChunkTrace(clen, n, n, TRUE, TRUE, 0, FALSE, FALSE)]
    ELSE
    LET mlen == Ntohs(d1.p)
        cl   == chunk_len(m, mlen)
    IN
    IF MlenInvalid(mlen)
    THEN [err |-> CRYPTO_ERROR, p |-> <<>>, c |-> c, n |-> n,
          tr |-> ChunkTrace(clen, n, n, TRUE, TRUE, mlen, FALSE, FALSE)]
    ELSE IF ChunkIncomplete(clen, cl)
    THEN [err |-> CRYPTO_NEED_MORE, p |-> <<>>, c |-> c, n |-> sodium_increment(n),
          tr |-> ChunkTrace(clen, n, n, TRUE, TRUE, mlen, FALSE, FALSE)]
    ELSE
    LET n1 == sodium_increment(n)
        d2 == aead_cipher_decrypt(subkey, n1,
                                  SubSeq(c, CHUNK_SIZE_LEN + tlen + 1, Min(cl, clen)), tlen)
    IN
    IF d2.err # 0
    THEN [err |-> CRYPTO_ERROR, p |-> <<>>, c |-> c, n |-> n1,
          tr |-> ChunkTrace(clen, n, n1, TRUE, TRUE, mlen, TRUE, FALSE)]
    ELSE [err |-> CRYPTO_OK, p |-> d2.p, c |-> Drop(c, cl),
          n |-> sodium_increment(n1),
          tr |-> ChunkTrace(clen, n, n1, TRUE, TRUE, mlen, TRUE, TRUE)]

\* aead_chunk_decrypt(ctx, p, c, n, plen, clen): [err, p, c, n, tr]
\* p the plaintext written, c the buffer and n the nonce after the call
aead_chunk_decrypt(m, subkey, c, n) ==
    LET tlen == tag_len(m)
        clen == Len(c)
    IN
    IF ChunkTooShort(m, clen)
    THEN [err |-> CRYPTO_NEED_MORE, p |-> <<>>, c |-> c, n |-> n,
          tr |-> ChunkTrace(clen, n, n, FALSE, FALSE, 0, FALSE, FALSE)]
    ELSE
    LET d1 == aead_cipher_decrypt(subkey, n, SubSeq(c, 1, CHUNK_SIZE_LEN + tlen), tlen)
    IN
    IF d1.err # 0
    THEN [err |-> CRYPTO_ERROR, p |-> <<>>, c |-> c, n |-> n,
          tr |-> ChunkTrace(clen, n, n, TRUE, FALSE, 0, FALSE, FALSE)]
    ELSE IF Len(d1.p) # CHUNK_SIZE_LEN
    THEN [err |-> ABORTED, p |-> <<>>, c |-> c, n |-> n,
          tr |-> ChunkTrace(clen, n, n, TRUE, TRUE, 0, FALSE, FALSE)]
    ELSE
    LET mlen == Ntohs(d1.p)
        cl   == chunk_len(m, mlen)
    IN
    IF MlenInvalid(mlen)
    THEN [err |-> CRYPTO_ERROR, p |-> <<>>, c |-> c, n |-> n,
          tr |-> ChunkTrace(clen, n, n, TRUE, TRUE, mlen, FALSE, FALSE)]
    ELSE IF ChunkIncomplete(clen, cl)
    THEN [err |-> CRYPTO_NEED_MORE, p |-> <<>>, c |-> c, n |-> n,
          tr |-> ChunkTrace(clen, n, n, TRUE, TRUE, mlen, FALSE, FALSE)]
    ELSE
    LET n1 == sodium_increment(n)
        d2 == aead_cipher_decrypt(subkey, n1,
                                  SubSeq(c, CHUNK_SIZE_LEN + tlen + 1, Min(cl, clen)), tlen)
    IN
    IF d2.err # 0
    THEN [err |-> CRYPTO_ERROR, p |-> <<>>, c |-> c, n |-> n1,
          tr |-> ChunkTrace(clen, n, n1, TRUE, TRUE, mlen, TRUE, FALSE)]
    ELSE [err |-> CRYPTO_OK, p |-> d2.p, c |-> Drop(c, cl),
          n |-> sodium_increment(n1),
          tr |-> ChunkTrace(clen, n, n1, TRUE, TRUE, mlen, TRUE, TRUE)]

\* a faulty variant: a chunk that fails is thrown away with the rest of the buffer
RECURSIVE DecryptLoop_drop_on_error(_, _, _, _)
DecryptLoop_drop_on_error(m, ctx, plaintext, log) ==
    IF Len(ctx.chunk) = 0
    THEN [res |-> CRYPTO_OK, out |-> plaintext, ctx |-> ctx, log |-> log]
    ELSE LET r == aead_chunk_decrypt(m, ctx.subkey, ctx.chunk, ctx.nonce)
         IN  IF r.err = CRYPTO_ERROR \/ r.err = ABORTED
             THEN [res |-> r.err, out |-> plaintext,
                   ctx |-> [ctx EXCEPT !.nonce = r.n, !.chunk = <<>>],
                   log |-> Append(log, r.tr)]
             ELSE IF r.err = CRYPTO_NEED_MORE
             THEN [res |-> IF Len(plaintext) = 0 THEN CRYPTO_NEED_MORE ELSE CRYPTO_OK,
                   out |-> plaintext, ctx |-> [ctx EXCEPT !.nonce = r.n],
                   log |-> Append(log, r.tr)]
             ELSE DecryptLoop_drop_on_error(m, [ctx EXCEPT !.chunk = r.c, !.nonce = r.n],
                                            plaintext \o r.p, Append(log, r.tr))

\* the while loop of aead_decrypt: pop chunks off ctx.chunk into plaintext
\* [res, out, ctx, log]: out is what plaintext holds when the loop is left
RECURSIVE DecryptLoop(_, _, _, _)
DecryptLoop(m, ctx, plaintext, log) ==
    IF Len(ctx.chunk) = 0
    THEN [res |-> CRYPTO_OK, out |-> plaintext, ctx |-> ctx, log |-> log]
    ELSE LET r == aead_chunk_decrypt(m, ctx.subkey, ctx.chunk, ctx.nonce)
         IN  IF r.err = CRYPTO_ERROR \/ r.err = ABORTED
             THEN [res |-> r.err, out |-> plaintext,
                   ctx |-> [ctx EXCEPT !.nonce = r.n], log |-> Append(log, r.tr)]
             ELSE IF r.err = CRYPTO_NEED_MORE
             THEN [res |-> IF Len(plaintext) = 0 THEN CRYPTO_NEED_MORE ELSE CRYPTO_OK,
                   out |-> plaintext, ctx |-> [ctx EXCEPT !.nonce = r.n],
                   log |-> Append(log, r.tr)]
             ELSE DecryptLoop(m, [ctx EXCEPT !.chunk = r.c, !.nonce = r.n],
                              plaintext \o r.p, Append(log, r.tr))

\* a faulty variant: the salt alone is enough to go on
SaltPending_strict(m, ctx) == Len(ctx.chunk) < key_len(m)

\* the salt is not yet wholly (and followed by a byte) in the buffer
SaltPending(m, ctx) == Len(ctx.chunk) <= key_len(m)

\* a faulty variant: a check that fails counts as a hit
SaltRepeated_fail_closed(rm, g, salt) == rm /\ fs_sbf_check(g, salt) # 0

\* a faulty variant: the hit is looked for in the failure code of the guard
SaltRepeated_wrong_code(rm, g, salt) == rm /\ fs_sbf_check(g, salt) < 0

\* MODULE_REMOTE only: the replay guard knows the salt of the stream
SaltRepeated(rm, g, salt) == rm /\ fs_sbf_check(g, salt) = 1

\* a faulty variant: the input takes the place of what the reassembly buffer held
aead_decrypt_overwrite(m, rm, ctx, ciphertext, g) ==
    LET ctx1 == [ctx EXCEPT !.alloc = TRUE, !.chunk = ciphertext]
        ctx2 == aead_cipher_ctx_set_subkey(m,
                    [ctx1 EXCEPT !.salt = Take(ctx1.chunk, key_len(m))])
        ctx3 == [ctx2 EXCEPT !.chunk = Drop(ctx2.chunk, key_len(m)), !.init = TRUE]
        loop == DecryptLoop(m, IF ctx1.init THEN ctx1 ELSE ctx3, <<>>, <<>>)
        g1   == IF ~ctx1.init /\ rm THEN fs_sbf_add(g, ctx2.salt) ELSE g
    IN
    IF ~ctx1.init /\ SaltPending(m, ctx1)
    THEN [res |-> CRYPTO_NEED_MORE, buf |-> ciphertext, ctx |-> ctx1, guard |-> g,
          log |-> <<>>]
    ELSE IF ~ctx1.init /\ SaltRepeated(rm, g, ctx2.salt)
    THEN [res |-> CRYPTO_ERROR, buf |-> ciphertext, ctx |-> ctx2, guard |-> g,
          log |-> <<>>]
    ELSE [res |-> loop.res,
          buf |-> IF loop.res = CRYPTO_OK THEN loop.out ELSE ciphertext,
          ctx |-> loop.ctx, guard |-> g1, log |-> loop.log]

\* a faulty variant: what the loop wrote is copied to the caller's buffer
\* whatever the loop returned
aead_decrypt_copy_always(m, rm, ctx, ciphertext, g) ==
    LET ctx1 == [ctx EXCEPT !.alloc = TRUE, !.chunk = ctx.chunk \o ciphertext]
        ctx2 == aead_cipher_ctx_set_subkey(m,
                    [ctx1 EXCEPT !.salt = Take(ctx1.chunk, key_len(m))])
        ctx3 == [ctx2 EXCEPT !.chunk = Drop(ctx2.chunk, key_len(m)), !.init = TRUE]
        loop == DecryptLoop(m, IF ctx1.init THEN ctx1 ELSE ctx3, <<>>, <<>>)
        g1   == IF ~ctx1.init /\ rm THEN fs_sbf_add(g, ctx2.salt) ELSE g
    IN
    IF ~ctx1.init /\ SaltPending(m, ctx1)
    THEN [res |-> CRYPTO_NEED_MORE, buf |-> ciphertext, ctx |-> ctx1, guard |-> g,
          log |-> <<>>]
    ELSE IF ~ctx1.init /\ SaltRepeated(rm, g, ctx2.salt)
    THEN [res |-> CRYPTO_ERROR, buf |-> ciphertext, ctx |-> ctx2, guard |-> g,
          log |-> <<>>]
    ELSE [res |-> loop.res, buf |-> loop.out,
          ctx |-> loop.ctx, guard |-> g1, log |-> loop.log]

\* aead_decrypt(ciphertext, cipher_ctx, capacity) in a build with MODULE_REMOTE
\* defined (rm) or not: [res, buf, ctx, guard, log], buf the caller's buffer
\* and guard the replay guard after the call
aead_decrypt(m, rm, ctx, ciphertext, g) ==
    LET ctx1 == [ctx EXCEPT !.alloc = TRUE, !.chunk = ctx.chunk \o ciphertext]
        ctx2 == aead_cipher_ctx_set_subkey(m,
                    [ctx1 EXCEPT !.salt = Take(ctx1.chunk, key_len(m))])
        ctx3 == [ctx2 EXCEPT !.chunk = Drop(ctx2.chunk, key_len(m)), !.init = TRUE]
        loop == DecryptLoop(m, IF ctx1.init THEN ctx1 ELSE ctx3, <<>>, <<>>)
        g1   == IF ~ctx1.init /\ rm THEN fs_sbf_add(g, ctx2.salt) ELSE g
    IN
    IF ~ctx1.init /\ SaltPending(m, ctx1)
    THEN [res |-> CRYPTO_NEED_MORE, buf |-> ciphertext, ctx |-> ctx1, guard |-> g,
          log |-> <<>>]
    ELSE IF ~ctx1.init /\ SaltRepeated(rm, g, ctx2.salt)
    THEN [res |-> CRYPTO_ERROR, buf |-> ciphertext, ctx |-> ctx2, guard |-> g,
          log |-> <<>>]
    ELSE [res |-> loop.res,
          buf |-> IF loop.res = CRYPTO_OK THEN loop.out ELSE ciphertext,
          ctx |-> loop.ctx, guard |-> g1, log |-> loop.log]

---------------------------------------------------------------------------
(* UDP: one datagram per call, master key, zero nonce *)

\* aead_ctx_release(ctx): the reassembly buffer and the primitive context freed
aead_ctx_release(ctx) == [ctx EXCEPT !.alloc = FALSE, !.chunk = <<>>, !.evp = FALSE]

\* a faulty variant: the key of a datagram is derived from its salt
aead_cipher_ctx_udp_set_key_session(m, ctx) == aead_cipher_ctx_set_subkey(m, ctx).subkey

\* aead_cipher_ctx_udp_set_key and the key argument of the AEAD calls of UDP:
\* the key those calls work with, cipher->key whatever the context holds
aead_cipher_ctx_udp_set_key(m, ctx) == MasterKey

\* a faulty variant: the nonce is advanced before the datagram is sealed
aead_encrypt_all_incremented(m, plaintext, id) ==
    LET ctx == aead_ctx_init(m, TRUE, id)
        key == aead_cipher_ctx_udp_set_key(m, ctx)
        n   == sodium_increment(ctx.nonce)
        c   == aead_cipher_encrypt(key, n, plaintext, tag_len(m))
    IN  [res |-> CRYPTO_OK, buf |-> ctx.salt \o c, salt |-> ctx.salt, key |-> key,
         nonce |-> n, released |-> TRUE]

\* aead_encrypt_all(plaintext, cipher, capacity), the salt drawn being number id:
\* [res, buf, salt, key, nonce, released]
aead_encrypt_all(m, plaintext, id) ==
    LET ctx == aead_ctx_init(m, TRUE, id)
        key == aead_cipher_ctx_udp_set_key(m, ctx)
        c   == aead_cipher_encrypt(key, ctx.nonce, plaintext, tag_len(m))
    IN  [res |-> CRYPTO_OK, buf |-> ctx.salt \o c, salt |-> ctx.salt, key |-> key,
         nonce |-> ctx.nonce, released |-> TRUE]

\* the length test that opens aead_decrypt_all
DatagramTooShort(m, len) == len <= key_len(m) + tag_len(m)

\* MODULE_REMOTE only: the replay guard knows the salt of the datagram
DatagramRepeated(rm, g, salt) == rm /\ fs_sbf_check(g, salt) = 1

\* a faulty variant: the salt is added when it is checked, as aead_decrypt does
aead_decrypt_all_add_first(m, rm, ciphertext, g) ==
    LET salt == Take(ciphertext, key_len(m))
        ctx  == [aead_ctx_init(m, FALSE, 0) EXCEPT !.salt = salt]
        key  == aead_cipher_ctx_udp_set_key(m, ctx)
        d    == aead_cipher_decrypt(key, ctx.nonce,
                                    Drop(ciphertext, key_len(m)), tag_len(m))
        g1   == IF rm THEN fs_sbf_add(g, salt) ELSE g
    IN
    IF DatagramTooShort(m, Len(ciphertext))
    THEN [res |-> CRYPTO_ERROR, buf |-> ciphertext, guard |-> g, inited |-> FALSE,
          released |-> FALSE, checked |-> FALSE, tried |-> FALSE,
          key |-> ZeroKey, nonce |-> <<>>]
    ELSE IF DatagramRepeated(rm, g, salt)
    THEN [res |-> CRYPTO_ERROR, buf |-> ciphertext, guard |-> g, inited |-> TRUE,
          released |-> FALSE, checked |-> TRUE, tried |-> FALSE,
          key |-> ZeroKey, nonce |-> <<>>]
    ELSE IF d.err # 0
    THEN [res |-> CRYPTO_ERROR, buf |-> ciphertext, guard |-> g1, inited |-> TRUE,
          released |-> TRUE, checked |-> rm, tried |-> TRUE,
          key |-> key, nonce |-> ctx.nonce]
    ELSE [res |-> CRYPTO_OK, buf |-> d.p, guard |-> g1, inited |-> TRUE,
          released |-> TRUE, checked |-> rm, tried |-> TRUE,
          key |-> key, nonce |-> ctx.nonce]

\* aead_decrypt_all(ciphertext, cipher, capacity):
\* [res, buf, guard, inited, released, checked, tried, key, nonce], key and nonce
\* being those of the AEAD call when one was made
aead_decrypt_all(m, rm, ciphertext, g) ==
    LET salt == Take(ciphertext, key_len(m))
        ctx  == [aead_ctx_init(m, FALSE, 0) EXCEPT !.salt = salt]
        key  == aead_cipher_ctx_udp_set_key(m, ctx)
        d    == aead_cipher_decrypt(key, ctx.nonce,
                                    Drop(ciphertext, key_len(m)), tag_len(m))
    IN
    IF DatagramTooShort(m, Len(ciphertext))
    THEN [res |-> CRYPTO_ERROR, buf |-> ciphertext, guard |-> g, inited |-> FALSE,
          released |-> FALSE, checked |-> FALSE, tried |-> FALSE,
          key |-> ZeroKey, nonce |-> <<>>]
    ELSE IF DatagramRepeated(rm, g, salt)
    THEN [res |-> CRYPTO_ERROR, buf |-> ciphertext, guard |-> g, inited |-> TRUE,
          released |-> FALSE, checked |-> TRUE, tried |-> FALSE,
          key |-> ZeroKey, nonce |-> <<>>]
    ELSE IF d.err # 0
    THEN [res |-> CRYPTO_ERROR, buf |-> ciphertext, guard |-> g, inited |-> TRUE,
          released |-> TRUE, checked |-> rm, tried |-> TRUE,
          key |-> key, nonce |-> ctx.nonce]
    ELSE [res |-> CRYPTO_OK, buf |-> d.p,
          guard |-> IF rm THEN fs_sbf_add(g, salt) ELSE g, inited |-> TRUE,
          released |-> TRUE, checked |-> rm, tried |-> TRUE,
          key |-> key, nonce |-> ctx.nonce]

---------------------------------------------------------------------------
(* The environment: callers, the network *)

Sess == 1 .. NumSess

\* the plaintext of length len the caller passes in its j-th non-empty call
PlainOf(j, len) == [i \in 1 .. len |-> Byte(10 * j + i)]

\* the same as a buffer_t, and a buffer_t of len bytes of which the model keeps
\* the bytes the call reads (none when the length assert fails)
PlainBuf(j, len) == Buf(PlainOf(j, len))
LongBuf(j, len) ==
    [len |-> len,
     data |-> PlainOf(j, IF len % UINT16_RANGE > CHUNK_SIZE_MASK THEN 0
                         ELSE len % UINT16_RANGE)]

\* s with the byte at offset k (from 1) changed
FlipAt(s, k) == [s EXCEPT ![k] = Flip(s[k])]

\* the stream as the decrypt side receives it
Stream == IF tamper = 0 THEN wire ELSE FlipAt(wire, tamper)

NoEnc == [called |-> FALSE, inlen |-> 0, res |-> CRYPTO_OK, chunks |-> 0,
          outlen |-> 0, written |-> 0, initBefore |-> FALSE, nonceBefore |-> <<>>,
          saltBefore |-> <<>>, subkeyBefore |-> ZeroKey]

NoDec == [called |-> FALSE, res |-> CRYPTO_OK, inlen |-> 0, buf |-> <<>>,
          log |-> <<>>, initBefore |-> FALSE, allocBefore |-> FALSE,
          chunkBefore |-> 0, nonceBefore |-> <<>>, guardHad |-> FALSE,
          bufSame |-> TRUE, resBefore |-> CRYPTO_OK, logBefore |-> <<>>,
          openedBefore |-> 0, saltBefore |-> <<>>, subkeyBefore |-> ZeroKey,
          checkCode |-> 0]

NoRel == [called |-> FALSE, before |-> <<>>, after |-> <<>>]

\* a thread that is not inside the guard calls of aead_decrypt
Idle == [pc |-> "idle", seg |-> <<>>]

NoAll == [called |-> FALSE, res |-> CRYPTO_OK, in |-> <<>>, buf |-> <<>>,
          guardSame |-> TRUE, guardHad |-> FALSE, seenBefore |-> FALSE,
          inited |-> FALSE, released |-> FALSE, checked |-> FALSE, tried |-> FALSE,
          key |-> ZeroKey, nonce |-> <<>>, checkCode |-> 0]

Init ==
    /\ method \in Methods
    /\ remote \in BOOLEAN
    /\ crashed = FALSE
    /\ ectx = aead_ctx_init(method, TRUE, 1)
    /\ dctx = [s \in Sess |-> aead_ctx_init(method, FALSE, 0)]
    /\ guard = {}
    /\ wire = <<>>
    /\ sent = <<>>
    /\ nchunks = 0
    /\ tamper = 0
    /\ fed = [s \in Sess |-> 0]
    /\ plain = [s \in Sess |-> <<>>]
    /\ lastEnc = NoEnc
    /\ lastDec = [s \in Sess |-> NoDec]
    /\ dgrams = <<>>
    /\ accepted = {}
    /\ lastAll = NoAll
    /\ opened = [s \in Sess |-> 0]
    /\ consumed = [s \in Sess |-> 0]
    /\ lastRel = NoRel
    /\ thr = [s \in Sess |-> Idle]

\* the caller encrypts the buffer p on the connection's encrypt context and sends
\* what comes back (a buffer whose tail the call did not write is not sent)
Encrypt(p) ==
    /\ ~crashed
    /\ nchunks < MaxBytes
    /\ \E r \in {aead_encrypt(method, ectx, p)} :
           /\ ectx' = r.ctx
           /\ crashed' = (r.res = ABORTED)
           /\ wire' = IF r.res = CRYPTO_OK /\ r.buf.len = Len(r.buf.data)
                      THEN wire \o r.buf.data ELSE wire
           /\ sent' = sent \o p.data
           /\ nchunks' = IF p.len > 0 THEN nchunks + 1 ELSE nchunks
           /\ lastEnc' = [called |-> TRUE, inlen |-> p.len, res |-> r.res,
                          chunks |-> r.chunks,
                          outlen |-> IF r.res = CRYPTO_OK THEN r.buf.len ELSE 0,
                          written |-> IF r.res = CRYPTO_OK THEN Len(r.buf.data) ELSE 0,
                          initBefore |-> ectx.init, nonceBefore |-> ectx.nonce,
                          saltBefore |-> ectx.salt, subkeyBefore |-> ectx.subkey]
    /\ UNCHANGED <<method, remote, dctx, guard, tamper, fed, plain, lastDec,
                   dgrams, accepted, lastAll, opened, consumed, lastRel, thr>>

\* the chunks that the invocations of log opened
Opened(log) == Cardinality({i \in DOMAIN log : log[i].payOk})

\* the bytes the invocations of log popped from the reassembly buffer
RECURSIVE Popped(_, _)
Popped(m, log) ==
    IF log = <<>> THEN 0
    ELSE (IF log[1].payOk THEN chunk_len(m, log[1].mlen) ELSE 0) + Popped(m, Tail(log))

\* session s gives the next n bytes of the stream to aead_decrypt
Decrypt(s, n) ==
    /\ ~crashed
    /\ n >= 0
    /\ fed[s] + n <= Len(wire)
    /\ \E seg \in {SubSeq(Stream, fed[s] + 1, fed[s] + n)} :
       \E r \in {aead_decrypt(method, remote, dctx[s], seg, guard)} :
           /\ dctx' = [dctx EXCEPT ![s] = r.ctx]
           /\ guard' = r.guard
           /\ crashed' = (r.res = ABORTED)
           /\ fed' = [fed EXCEPT ![s] = fed[s] + n]
           /\ plain' = [plain EXCEPT ![s] =
                            IF r.res = CRYPTO_OK THEN plain[s] \o r.buf ELSE plain[s]]
           /\ lastDec' = [lastDec EXCEPT ![s] =
                  [called |-> TRUE, res |-> r.res, inlen |-> n,
                   buf |-> IF r.buf = seg THEN <<>> ELSE r.buf, log |-> r.log,
                   initBefore |-> dctx[s].init, allocBefore |-> dctx[s].alloc,
                   chunkBefore |-> Len(dctx[s].chunk),
                   nonceBefore |-> dctx[s].nonce,
                   guardHad |-> Take(dctx[s].chunk \o seg, key_len(method)) \in guard,
                   bufSame |-> (r.buf = seg), resBefore |-> lastDec[s].res,
                   logBefore |-> lastDec[s].log, openedBefore |-> opened[s],
                   saltBefore |-> dctx[s].salt, subkeyBefore |-> dctx[s].subkey,
                   checkCode |-> fs_sbf_check(guard, Take(dctx[s].chunk \o seg,
                                                          key_len(method)))]]
           /\ opened' = [opened EXCEPT ![s] = opened[s] + Opened(r.log)]
           /\ consumed' = [consumed EXCEPT ![s] = consumed[s] + Popped(method, r.log)]
    /\ UNCHANGED <<method, remote, ectx, wire, sent, nchunks, tamper, lastEnc,
                   dgrams, accepted, lastAll, lastRel, thr>>

\* session s reads the next n bytes of the stream and gives them to aead_decrypt;
\* a session that got ERROR is closed by its caller
Feed(s, n) ==
    /\ lastDec[s].res # CRYPTO_ERROR
    /\ n >= 1
    /\ Decrypt(s, n)

\* a peer that holds the key but not this code sends, on the encrypt side's
\* stream, a chunk whose length field is v and whose payload is one byte
Forge(v) ==
    /\ ~crashed
    /\ nchunks < MaxBytes
    /\ ectx.init
    /\ \E n1 \in {sodium_increment(ectx.nonce)} :
           /\ wire' = wire
                  \o aead_cipher_encrypt(ectx.subkey, ectx.nonce, Htons(v), tag_len(method))
                  \o aead_cipher_encrypt(ectx.subkey, n1, <<Byte(0)>>, tag_len(method))
           /\ ectx' = [ectx EXCEPT !.nonce = sodium_increment(n1)]
    /\ nchunks' = nchunks + 1
    /\ UNCHANGED <<method, remote, crashed, dctx, guard, sent, tamper, fed, plain,
                   lastEnc, lastDec, dgrams, accepted, lastAll, opened, consumed, lastRel, thr>>

\* one byte of the stream, not yet delivered to anyone, is changed in transit
Tamper(k) ==
    /\ ~crashed
    /\ tamper = 0
    /\ k \in 1 .. Len(wire)
    /\ \A s \in Sess : fed[s] = 0
    /\ tamper' = k
    /\ UNCHANGED <<method, remote, crashed, ectx, dctx, guard, wire, sent, nchunks,
                   fed, plain, lastEnc, lastDec, dgrams, accepted, lastAll, opened, consumed,
                   lastRel, thr>>

\* the caller encrypts a datagram of plaintext p and sends it
EncryptAll(p) ==
    /\ ~crashed
    /\ Len(dgrams) < MaxDgrams
    /\ \E r \in {aead_encrypt_all(method, p, Len(dgrams) + 2)} :
           /\ r.res = CRYPTO_OK
           /\ dgrams' = Append(dgrams, [p |-> p, d |-> r.buf, salt |-> r.salt,
                                        key |-> r.key,
                                        nonce |-> r.nonce, released |-> r.released])
    /\ UNCHANGED <<method, remote, crashed, ectx, dctx, guard, wire, sent, nchunks,
                   tamper, fed, plain, lastEnc, lastDec, accepted, lastAll, opened, consumed,
                   lastRel, thr>>

\* the receiver gets datagram d and gives it to aead_decrypt_all
DecryptAll(d) ==
    /\ ~crashed
    /\ \E r \in {aead_decrypt_all(method, remote, d, guard)} :
           /\ guard' = r.guard
           /\ accepted' = IF r.res = CRYPTO_OK THEN accepted \cup {d} ELSE accepted
           /\ lastAll' = [called |-> TRUE, res |-> r.res, in |-> d,
                          buf |-> IF r.res = CRYPTO_OK THEN r.buf ELSE <<>>,
                          guardSame |-> (r.guard = guard),
                          guardHad |-> (Take(d, key_len(method)) \in guard),
                          seenBefore |-> (d \in accepted),
                          inited |-> r.inited, released |-> r.released,
                          checked |-> r.checked, tried |-> r.tried,
                          key |-> r.key, nonce |-> r.nonce,
                          checkCode |-> fs_sbf_check(guard, Take(d, key_len(method)))]
    /\ UNCHANGED <<method, remote, crashed, ectx, dctx, wire, sent, nchunks, tamper,
                   fed, plain, lastEnc, lastDec, dgrams, opened, consumed, lastRel, thr>>

\* the connection is closed: its encrypt context is given to aead_ctx_release
ReleaseEnc ==
    /\ ~crashed
    /\ ~lastRel.called
    /\ ectx' = aead_ctx_release(ectx)
    /\ lastRel' = [called |-> TRUE, before |-> ectx, after |-> ectx']
    /\ UNCHANGED <<method, remote, crashed, dctx, guard, wire, sent, nchunks, tamper,
                   fed, plain, lastEnc, lastDec, dgrams, accepted, lastAll, opened, consumed, thr>>

\* the connection is closed: the decrypt context of session s is given to
\* aead_ctx_release
ReleaseDec(s) ==
    /\ ~crashed
    /\ ~lastRel.called
    /\ dctx' = [dctx EXCEPT ![s] = aead_ctx_release(dctx[s])]
    /\ lastRel' = [called |-> TRUE, before |-> dctx[s], after |-> dctx'[s]]
    /\ UNCHANGED <<method, remote, crashed, ectx, guard, wire, sent, nchunks, tamper,
                   fed, plain, lastEnc, lastDec, dgrams, accepted, lastAll, opened, consumed, thr>>

\* aead_decrypt from fs_sbf_add on, in a thread whose fs_sbf_check did not find
\* the salt: the call goes on as over a guard without the salt, and the salt is
\* added to the guard as it is by then
aead_decrypt_after_check(m, rm, ctx, ciphertext, g) ==
    LET r == aead_decrypt(m, rm, ctx, ciphertext, {})
    IN  [r EXCEPT !.guard = IF rm THEN fs_sbf_add(g, r.ctx.salt) ELSE g]

\* aead_decrypt_all after its fs_sbf_check did not find the salt: the AEAD call,
\* and on success fs_sbf_add on the guard as it is by then
aead_decrypt_all_after_check(m, rm, ciphertext, g) ==
    LET r == aead_decrypt_all(m, rm, ciphertext, {})
    IN  [r EXCEPT !.guard = IF rm /\ r.res = CRYPTO_OK
                            THEN fs_sbf_add(g, Take(ciphertext, key_len(m))) ELSE g]

\* thread s calls aead_decrypt with the whole stream on its fresh context and runs
\* up to the answer of fs_sbf_check (line 749); a hit ends the call with ERROR
GuardCheck(s) ==
    /\ ~crashed
    /\ thr[s].pc = "idle"
    /\ fed[s] = 0
    /\ Len(wire) > key_len(method)
    /\ \E r \in {aead_decrypt(method, remote, dctx[s], Stream, guard)} :
           IF r.res = CRYPTO_ERROR /\ r.log = <<>>
           THEN /\ thr' = [thr EXCEPT ![s] = [pc |-> "rejected", seg |-> Stream]]
                /\ dctx' = [dctx EXCEPT ![s] = r.ctx]
                /\ fed' = [fed EXCEPT ![s] = Len(wire)]
           ELSE /\ thr' = [thr EXCEPT ![s] = [pc |-> "checked", seg |-> Stream]]
                /\ UNCHANGED <<dctx, fed>>
    /\ UNCHANGED <<method, remote, crashed, ectx, guard, wire, sent, nchunks, tamper,
                   plain, lastEnc, lastDec, dgrams, accepted, lastAll, opened, consumed, lastRel>>

\* thread s, past the check, calls fs_sbf_add (line 756) and finishes the call.
\* What the call hands back is not followed: the scratch buffer it is built in
\* is shared by the threads.
GuardAdd(s) ==
    /\ ~crashed
    /\ thr[s].pc = "checked"
    /\ fed[s] = 0
    /\ \E r \in {aead_decrypt_after_check(method, remote, dctx[s], thr[s].seg, guard)} :
           /\ dctx' = [dctx EXCEPT ![s] = r.ctx]
           /\ guard' = r.guard
           /\ fed' = [fed EXCEPT ![s] = Len(thr[s].seg)]
           /\ opened' = [opened EXCEPT ![s] = opened[s] + Opened(r.log)]
           /\ consumed' = [consumed EXCEPT ![s] = consumed[s] + Popped(method, r.log)]
    /\ thr' = [thr EXCEPT ![s].pc = "passed"]
    /\ UNCHANGED <<method, remote, crashed, ectx, wire, sent, nchunks, tamper, plain,
                   lastEnc, lastDec, dgrams, accepted, lastAll, lastRel>>

\* thread s calls aead_decrypt_all with datagram d and runs up to the answer of
\* fs_sbf_check (line 524); a hit ends the call with ERROR
UdpCheck(s, d) ==
    /\ ~crashed
    /\ thr[s].pc = "idle"
    /\ fed[s] = 0
    /\ ~DatagramTooShort(method, Len(d))
    /\ thr' = [thr EXCEPT ![s] =
                  [pc |-> IF DatagramRepeated(remote, guard, Take(d, key_len(method)))
                          THEN "rejected" ELSE "checked",
                   seg |-> d]]
    /\ UNCHANGED <<method, remote, crashed, ectx, dctx, guard, wire, sent, nchunks,
                   tamper, fed, plain, lastEnc, lastDec, dgrams, accepted, lastAll,
                   opened, consumed, lastRel>>

\* thread s, past the check of aead_decrypt_all, opens the datagram and calls
\* fs_sbf_add (line 557)
UdpAdd(s) ==
    /\ ~crashed
    /\ thr[s].pc = "checked"
    /\ thr[s].seg \in {dgrams[i].d : i \in DOMAIN dgrams}
    /\ \E r \in {aead_decrypt_all_after_check(method, remote, thr[s].seg, guard)} :
           /\ guard' = r.guard
           /\ accepted' = IF r.res = CRYPTO_OK THEN accepted \cup {thr[s].seg}
                           ELSE accepted
    /\ thr' = [thr EXCEPT ![s].pc = "passed"]
    /\ UNCHANGED <<method, remote, crashed, ectx, dctx, wire, sent, nchunks, tamper,
                   fed, plain, lastEnc, lastDec, dgrams, lastAll, opened, consumed, lastRel>>

\* the replay guard breaks: from now on its check (or its add) returns an error
GuardFault(e) ==
    /\ ~crashed
    /\ e \notin guard
    /\ guard' = guard \cup {e}
    /\ UNCHANGED <<method, remote, crashed, ectx, dctx, wire, sent, nchunks, tamper,
                   fed, plain, lastEnc, lastDec, dgrams, accepted, lastAll, opened,
                   consumed, lastRel, thr>>

\* what the network may deliver of a datagram d that was sent: d itself, d with
\* one byte changed (the first of the salt, the first and the last of the AEAD
\* output), d cut short
Deliveries(d) ==
    {d, Take(d, Len(d) - 1), Take(d, key_len(method) + tag_len(method) - 1)}
    \cup {FlipAt(d, k) : k \in {1, key_len(method) + 1, Len(d)}}

\* the plaintext lengths the caller may still pass
PlainLens == 1 .. (MaxBytes - Len(sent))

\* the segment sizes a read may return when avail bytes are waiting
SegSizes(avail) == (1 .. Min(MaxSeg, avail)) \cup {key_len(method), avail}

Next ==
    \/ \E len \in PlainLens : Encrypt(PlainBuf(nchunks + 1, len))
    \/ \E n \in SegSizes(Len(wire) - fed[1]) : Feed(1, n)

\* the TCP stream codec: a sender, and one receiver reading in any segmentation
Spec == Init /\ [][Next]_vars

\* the sender alone, empty buffers included
NextEnc == \E len \in {0} \cup PlainLens : Encrypt(PlainBuf(nchunks + 1, len))

SpecEnc == Init /\ [][NextEnc]_vars

\* the sender alone, given buffers around and beyond the chunk size limit
LongLens ==
    {CHUNK_SIZE_MASK + 1, UINT16_RANGE - 1, UINT16_RANGE, UINT16_RANGE + 1,
     UINT16_RANGE + CHUNK_SIZE_LEN, 2 * UINT16_RANGE + 1}

NextLen ==
    \/ \E len \in PlainLens : Encrypt(PlainBuf(nchunks + 1, len))
    \/ \E len \in LongLens : Encrypt(LongBuf(nchunks + 1, len))

SpecLen == Init /\ [][NextLen]_vars

\* the state after construction in a build with MODULE_REMOTE
InitRemote == Init /\ remote = TRUE

\* a stream with one byte changed after the sender finished, read by one receiver
\* of the server in one piece, or in two with the last byte apart
NextTamper ==
    \/ \E len \in PlainLens : tamper = 0 /\ Encrypt(PlainBuf(nchunks + 1, len))
    \/ \E k \in 1 .. Len(wire) : Tamper(k)
    \/ \E n \in {Len(wire) - fed[1] - 1, Len(wire) - fed[1]} : tamper # 0 /\ Feed(1, n)

SpecTamper == InitRemote /\ [][NextTamper]_vars

\* one recorded stream read by several sessions of the same server
NextReplay ==
    \/ \E len \in PlainLens : Encrypt(PlainBuf(nchunks + 1, len))
    \/ \E s \in Sess : fed[s] = 0 /\ Feed(s, key_len(method))
    \/ \E s \in Sess : Feed(s, Len(wire) - fed[s])

SpecReplay == InitRemote /\ [][NextReplay]_vars

\* the length fields a chunk must not have
BadLens == {0, CHUNK_SIZE_MASK + 1}

\* where the network changes a byte: in the length ciphertext or in the
\* payload ciphertext of the first chunk, in the last tag
TamperSpots ==
    {key_len(method) + 1, key_len(method) + CHUNK_SIZE_LEN + tag_len(method) + 1,
     Len(wire)}

\* what a session reads at once: the salt and a byte, or everything that waits
ReadSizes(s) == {key_len(method) + 1 - fed[s], Len(wire) - fed[s]}

\* nothing of the stream was read yet
Unread == \A s \in Sess : fed[s] = 0

\* the sessions before s have read the whole stream
Turn(s) == \A t \in Sess : t < s => fed[t] = Len(wire)

\* streams of one-byte chunks that make aead_decrypt fail (a replayed salt, a
\* changed byte, a length field out of range), recorded and then read by one
\* session of the server after the other, each going on calling after ERROR
NextAbsorb ==
    \/ tamper = 0 /\ Unread /\ Encrypt(PlainBuf(nchunks + 1, 1))
    \/ \E v \in BadLens : tamper = 0 /\ Unread /\ Forge(v)
    \/ \E k \in TamperSpots : Tamper(k)
    \/ \E s \in Sess : \E n \in ReadSizes(s) : Turn(s) /\ Feed(s, n)
    \/ \E s \in Sess : \E n \in {0, Len(wire) - fed[s]} :
           Turn(s) /\ lastDec[s].res = CRYPTO_ERROR /\ Decrypt(s, n)

SpecAbsorb == InitRemote /\ [][NextAbsorb]_vars

\* a server whose replay guard may break at any time: connections that bring
\* the same stream one after the other, datagrams that come any number of times
NextFailOpen ==
    \/ Unread /\ dgrams = <<>> /\ Encrypt(PlainBuf(nchunks + 1, 1))
    \/ wire = <<>> /\ lastAll = NoAll /\ EncryptAll(PlainOf(Len(dgrams) + 1, 1))
    \/ \E e \in {CheckFails, AddFails} : GuardFault(e)
    \/ \E s \in Sess : \E n \in ReadSizes(s) : Turn(s) /\ Feed(s, n)
    \/ \E i \in DOMAIN dgrams : DecryptAll(dgrams[i].d)

SpecFailOpen == InitRemote /\ [][NextFailOpen]_vars

\* no thread has entered a decrypt call
AllIdle == \A s \in Sess : thr[s].pc = "idle"

\* server threads, one connection or one datagram each, all given the same
\* bytes; the guard calls of a thread are steps of their own, the rest of its
\* work falls between them
NextConc ==
    \/ AllIdle /\ dgrams = <<>> /\ nchunks = 0 /\ Encrypt(PlainBuf(1, 1))
    \/ AllIdle /\ wire = <<>> /\ EncryptAll(PlainOf(1, 1))
    \/ \E s \in Sess : GuardCheck(s)
    \/ \E s \in Sess : thr[s].seg = Stream /\ GuardAdd(s)
    \/ \E s \in Sess : \E i \in DOMAIN dgrams : UdpCheck(s, dgrams[i].d)
    \/ \E s \in Sess : UdpAdd(s)

SpecConc == InitRemote /\ [][NextConc]_vars

\* a connection that is closed at any point: both contexts live until one of
\* them is released
NextRelease ==
    \/ \E len \in PlainLens : ~lastRel.called /\ Encrypt(PlainBuf(nchunks + 1, len))
    \/ \E n \in {key_len(method), Len(wire) - fed[1]} : ~lastRel.called /\ Feed(1, n)
    \/ ReleaseEnc
    \/ ReleaseDec(1)

SpecRelease == Init /\ [][NextRelease]_vars

\* the UDP codec: a sender, and a receiver the network delivers to in any order,
\* any number of times
NextUDP ==
    \/ \E len \in 0 .. (MaxBytes - 1) : EncryptAll(PlainOf(Len(dgrams) + 1, len))
    \/ \E i \in 1 .. Len(dgrams) : \E d \in Deliveries(dgrams[i].d) : DecryptAll(d)

SpecUDP == Init /\ [][NextUDP]_vars

---------------------------------------------------------------------------
(* Properties *)

IsPrefix(a, b) == Len(a) <= Len(b) /\ a = SubSeq(b, 1, Len(a))

\* C1: fragmentation robustness of the TCP codec. Whatever non-empty plaintexts
\* were encrypted on one context and however the receiver's reads cut the
\* stream, no aead_decrypt call of the fresh decrypt context returns ERROR (or
\* aborts), the buffers returned with OK joined are a prefix of the plaintexts
\* joined, and they are all of it once every byte of the stream was fed.
C1_Fragmentation ==
    /\ lastDec[1].res \in {CRYPTO_OK, CRYPTO_NEED_MORE}
    /\ ~crashed
    /\ IsPrefix(plain[1], sent)
    /\ fed[1] = Len(wire) => plain[1] = sent

\* two chunks were sent, the last read returned a single byte and completed
\* the stream, and the receiver holds both plaintexts
C1_Witness ==
    /\ nchunks >= 2
    /\ fed[1] = Len(wire)
    /\ lastDec[1].called
    /\ lastDec[1].inlen = 1
    /\ lastDec[1].res = CRYPTO_OK
    /\ plain[1] = sent
    /\ Len(sent) >= 2

\* the last aead_decrypt_all call was given the i-th datagram as it was sent,
\* and the replay guard did not hold its salt
FirstReceipt(i) ==
    /\ lastAll.called
    /\ lastAll.in = dgrams[i].d
    /\ ~(remote /\ lastAll.guardHad)

\* C2: UDP round trip for every method and every plaintext, the zero-length
\* plaintext included: aead_decrypt_all applied to the output of
\* aead_encrypt_all(P), the guard not holding its salt, returns OK and leaves
\* exactly P in the buffer.
C2_RoundTrip ==
    \A i \in DOMAIN dgrams :
        FirstReceipt(i) => lastAll.res = CRYPTO_OK /\ lastAll.buf = dgrams[i].p

\* the payload lengths of the chunks of log whose payload was opened
RECURSIVE SumOpened(_)
SumOpened(log) ==
    IF log = <<>> THEN 0
    ELSE (IF log[1].payOk THEN log[1].mlen ELSE 0) + SumOpened(Tail(log))

\* C3: in every aead_chunk_decrypt invocation of an aead_decrypt call, the
\* payload is given to the AEAD only if in that same invocation the length
\* ciphertext authenticated, the decoded length is in 1..0x3FFF and the
\* reassembly buffer holds the whole chunk (2 + 2*tag_len + length bytes); and
\* the caller's buffer gets exactly the payloads so opened when the call
\* returns OK, and nothing otherwise.
C3_PayloadGuarded ==
    LET log == lastDec[1].log
    IN  /\ \A i \in DOMAIN log :
               /\ log[i].payOk => log[i].payTried
               /\ log[i].payTried =>
                      /\ log[i].lenTried /\ log[i].lenOk
                      /\ log[i].mlen >= 1 /\ log[i].mlen <= CHUNK_SIZE_MASK
                      /\ log[i].clen >= CHUNK_SIZE_LEN + 2 * tag_len(method) + log[i].mlen
        /\ Len(lastDec[1].buf) =
               IF lastDec[1].res = CRYPTO_OK THEN SumOpened(log) ELSE 0

\* a call opened one chunk, then met a length ciphertext that did not
\* authenticate: it left that chunk's payload alone and returned ERROR
C3_Witness ==
    LET log == lastDec[1].log
    IN  /\ lastDec[1].res = CRYPTO_ERROR
        /\ Len(log) >= 2
        /\ log[1].payOk
        /\ log[Len(log)].lenTried /\ ~log[Len(log)].lenOk /\ ~log[Len(log)].payTried
        /\ lastDec[1].buf = <<>>

\* the fresh decrypt context was given the complete stream in one call
WholeStreamCall ==
    /\ lastDec[1].called
    /\ ~lastDec[1].allocBefore
    /\ lastDec[1].inlen = Len(wire)

\* the decrypt context has been given every byte of the stream
StreamDone == lastDec[1].called /\ fed[1] = Len(wire)

\* C4 as stated: tamper detection on the TCP stream. A single changed byte
\* anywhere in the stream, at any salt offset 0..key_len-1 or in any part of a
\* chunk, makes aead_decrypt of the complete modified stream return ERROR.
C4_TamperDetected_AnyByte ==
    tamper # 0 /\ WholeStreamCall => lastDec[1].res = CRYPTO_ERROR

\* C4, amended: a single changed byte at a salt offset 0..15 or in any part of
\* a chunk makes aead_decrypt return ERROR by the time the complete modified
\* stream was fed; a changed byte at a salt offset 16..key_len-1 (methods with
\* a 24- or 32-byte key) is not detected, the stream decrypts to the original
\* plaintext; in no case does a call return bytes other than the plaintext.
C4_TamperDetected ==
    /\ IsPrefix(plain[1], sent)
    /\ tamper # 0 /\ StreamDone /\ (tamper <= SALTBYTES \/ tamper > key_len(method))
           => lastDec[1].res = CRYPTO_ERROR
    /\ tamper # 0 /\ StreamDone /\ tamper > SALTBYTES /\ tamper <= key_len(method)
           => lastDec[1].res = CRYPTO_OK /\ plain[1] = sent

\* under a 32-byte key the last byte of a stream of two chunks was changed and
\* the stream given whole: the first chunk opened, the call returned ERROR
C4_Witness ==
    /\ key_len(method) > SALTBYTES
    /\ nchunks >= 2
    /\ tamper = Len(wire)
    /\ WholeStreamCall
    /\ Len(lastDec[1].log) = 2
    /\ lastDec[1].log[1].payOk
    /\ lastDec[1].res = CRYPTO_ERROR
    /\ plain[1] = <<>>

\* the last aead_decrypt call of session s was the one that met the salt: the
\* context was not initialised and the call left more than key_len bytes buffered
MetSalt(s) ==
    /\ lastDec[s].called
    /\ ~lastDec[s].initBefore
    /\ lastDec[s].chunkBefore + lastDec[s].inlen > key_len(method)

\* C5: TCP replay rejection in the server role. A session that consumed a salt
\* left it in the replay guard; a session whose salt-consuming aead_decrypt
\* call finds the salt of its stream in the guard gets ERROR from that call,
\* is not initialised and delivers no plaintext; so of the sessions reading one
\* recorded stream at most one is ever initialised or delivers anything.
C5_ReplayRejected ==
    /\ \A s \in Sess : dctx[s].init => fs_sbf_check(guard, dctx[s].salt) = 1
    /\ \A s \in Sess :
           MetSalt(s) /\ lastDec[s].guardHad
               => /\ lastDec[s].res = CRYPTO_ERROR
                  /\ ~dctx[s].init
                  /\ plain[s] = <<>>
    /\ \A s \in Sess : ~dctx[s].init => plain[s] = <<>>
    /\ \A s, t \in Sess : dctx[s].init /\ dctx[t].init => s = t

\* one session consumed the salt and delivered plaintext; another, given the
\* same stream later, got ERROR from the call that met the salt
C5_Witness ==
    \E s, t \in Sess :
        /\ s # t
        /\ dctx[s].init
        /\ plain[s] = sent /\ sent # <<>>
        /\ MetSalt(t) /\ lastDec[t].guardHad
        /\ lastDec[t].res = CRYPTO_ERROR
        /\ plain[t] = <<>>

\* C6: UDP replay rejection in the server role. aead_decrypt_all changes the
\* replay guard only in a call that returns OK, that is after the AEAD opened
\* the datagram (a datagram that is too short, repeats a salt or fails
\* authentication leaves the guard as it was); the salt of every accepted
\* datagram is in the guard; and a datagram that is identical to one accepted
\* before gets ERROR, without its decryption being tried.
C6_UdpReplayRejected ==
    remote =>
        /\ lastAll.called /\ lastAll.res # CRYPTO_OK => lastAll.guardSame
        /\ lastAll.called /\ ~lastAll.tried => lastAll.guardSame
        /\ \A d \in accepted : fs_sbf_check(guard, Take(d, key_len(method))) = 1
        /\ lastAll.called /\ lastAll.seenBefore
               => lastAll.res = CRYPTO_ERROR /\ ~lastAll.tried

\* the server accepted a datagram, and its second receipt was refused
C6_Witness ==
    /\ remote
    /\ lastAll.called
    /\ lastAll.seenBefore
    /\ lastAll.in \in accepted
    /\ lastAll.res = CRYPTO_ERROR

\* a <= b for little-endian counters of the same length
NonceLeq(a, b) ==
    \/ a = b
    \/ \E i \in DOMAIN a : a[i] < b[i] /\ \A j \in DOMAIN a : j > i => a[j] = b[j]

\* C7: encrypt-side nonce accounting. On one encrypt context, after any
\* sequence of aead_encrypt calls with plaintext lengths <= 0x3FFF, the nonce
\* counts 2 times the calls that had a non-empty plaintext; a call with an empty
\* plaintext does not touch it; and no call leaves it lower than it found it.
C7_NonceAccounting ==
    /\ ectx.nonce = NonceOf(2 * nchunks, nonce_len(method))
    /\ lastEnc.called => NonceLeq(lastEnc.nonceBefore, ectx.nonce)
    /\ lastEnc.called /\ lastEnc.inlen = 0 => ectx.nonce = lastEnc.nonceBefore
    /\ lastEnc.called /\ lastEnc.inlen > 0 =>
           ectx.nonce = sodium_increment(sodium_increment(lastEnc.nonceBefore))

\* two calls had plaintext, then came a call with none: the nonce counts 4
C7_Witness ==
    /\ nchunks = 2
    /\ lastEnc.called
    /\ lastEnc.inlen = 0
    /\ ectx.nonce[1] = 4

\* C8: encrypt length bound. For every plaintext length L > 0x3FFF given to
\* aead_encrypt, lengths of 65536 and more with low 16 bits <= 0x3FFF included,
\* the call does not return OK having emitted a single chunk.
C8_LengthBound ==
    lastEnc.called /\ lastEnc.inlen > CHUNK_SIZE_MASK
        => ~(lastEnc.res = CRYPTO_OK /\ lastEnc.chunks = 1)

\* C9: encrypt framing. A call with a zero-length plaintext returns OK, leaves
\* the buffer empty and init as it was (false on a context that had no payload
\* yet); the first call with n > 0 bytes returns salt and one chunk, key_len + 2 +
\* tag_len + n + tag_len bytes, and sets init; every later call with n > 0
\* bytes returns one chunk of 2 + tag_len + n + tag_len bytes; so the outputs
\* joined are the salt, once, followed by AEAD output only.
C9_Framing ==
    LET tlen == tag_len(method)
        klen == key_len(method)
    IN  /\ lastEnc.called /\ lastEnc.inlen = 0 =>
               /\ lastEnc.res = CRYPTO_OK
               /\ lastEnc.outlen = 0 /\ lastEnc.written = 0
               /\ ectx.init = lastEnc.initBefore
        /\ lastEnc.called /\ lastEnc.inlen > 0 =>
               /\ lastEnc.res = CRYPTO_OK
               /\ lastEnc.chunks = 1
               /\ lastEnc.outlen = (IF lastEnc.initBefore THEN 0 ELSE klen)
                                     + CHUNK_SIZE_LEN + tlen + lastEnc.inlen + tlen
               /\ lastEnc.written = lastEnc.outlen
               /\ ectx.init
        /\ nchunks = 0 => ~ectx.init /\ wire = <<>>
        /\ nchunks > 0 =>
               /\ ectx.init
               /\ Take(wire, klen) = ectx.salt
               /\ Len(wire) = klen + nchunks * (CHUNK_SIZE_LEN + 2 * tlen) + Len(sent)
               /\ \A i \in (klen + 1) .. Len(wire) : wire[i][1] \in {"c", "d"}

\* after a first and a later call with plaintext the stream is the salt and
\* two chunks
C9_Witness ==
    /\ nchunks = 2
    /\ lastEnc.called
    /\ lastEnc.initBefore
    /\ lastEnc.inlen = 1
    /\ lastEnc.outlen = CHUNK_SIZE_LEN + 2 * tag_len(method) + 1
    /\ Take(wire, key_len(method)) = ectx.salt
    /\ Len(wire) = key_len(method) + 2 * (CHUNK_SIZE_LEN + 2 * tag_len(method)) + Len(sent)

\* the last aead_decrypt call was the first of its context and was given
\* exactly key_len bytes
ExactlySaltCall ==
    /\ lastDec[1].called
    /\ ~lastDec[1].allocBefore
    /\ lastDec[1].inlen = key_len(method)

C11_NoPartialOutput ==
    \A s \in Sess :
        lastDec[s].called /\ lastDec[s].res \in {CRYPTO_ERROR, CRYPTO_NEED_MORE}
            => lastDec[s].bufSame /\ lastDec[s].buf = <<>>

\* a call opened the first chunk, the payload of the second did not
\* authenticate: ERROR, and the buffer is the ciphertext that was passed
C11_Witness ==
    LET log == lastDec[1].log
    IN  /\ lastDec[1].res = CRYPTO_ERROR
        /\ Len(log) = 2
        /\ log[1].payOk /\ log[1].mlen >= 1
        /\ log[2].payTried /\ ~log[2].payOk
        /\ lastDec[1].bufSame

\* C12: after aead_ctx_release(ctx) returns, the subkey, the salt and the nonce
\* held in the context are zeroized, and the reassembly buffer and the
\* primitive context have been freed.
C12_ReleaseZeroizes ==
    lastRel.called =>
        /\ lastRel.after.subkey = ZeroKey
        /\ lastRel.after.salt = ZeroBytes(key_len(method))
        /\ lastRel.after.nonce = Zeros(nonce_len(method))
        /\ ~lastRel.after.alloc /\ lastRel.after.chunk = <<>>
        /\ ~lastRel.after.evp

\* what does hold of aead_ctx_release: the reassembly buffer and the primitive
\* context are freed, everything else in the context is as it was
ReleaseFrees ==
    lastRel.called =>
        /\ ~lastRel.after.alloc /\ lastRel.after.chunk = <<>>
        /\ ~lastRel.after.evp
        /\ lastRel.after.subkey = lastRel.before.subkey
        /\ lastRel.after.salt = lastRel.before.salt
        /\ lastRel.after.nonce = lastRel.before.nonce
        /\ lastRel.after.init = lastRel.before.init

\* the invocation opened a valid length and found the chunk not yet whole
Incomplete(e) == e.lenTried /\ e.lenOk /\ ~MlenInvalid(e.mlen) /\ ~e.payTried

Last(log) == log[Len(log)]

\* C13 as stated: when the length ciphertext of the pending chunk authenticates
\* and decodes to a valid length but the chunk is not yet whole, aead_decrypt
\* returns NEED_MORE with the nonce advanced by one past the length
\* decryption, and the next call does not decrypt the length ciphertext again.
C13_NonceAdvancedOnNeedMore ==
    /\ lastDec[1].log # <<>> /\ Incomplete(Last(lastDec[1].log))
           /\ lastDec[1].res = CRYPTO_NEED_MORE
           => dctx[1].nonce = sodium_increment(Last(lastDec[1].log).n)
    /\ lastDec[1].logBefore # <<>> /\ Incomplete(Last(lastDec[1].logBefore))
           /\ lastDec[1].resBefore = CRYPTO_NEED_MORE /\ lastDec[1].log # <<>>
           => ~lastDec[1].log[1].lenTried

\* C13, amended: in that case aead_decrypt returns (NEED_MORE if the call
\* opened no chunk, OK with the chunks it opened otherwise) with the nonce not
\* advanced and the pending chunk still in the reassembly buffer; the next call
\* decrypts the length ciphertext again under the same nonce and, once the
\* chunk is whole, the payload under that nonce plus one.
C13_NonceKeptOnNeedMore ==
    LET log  == lastDec[1].log
        prev == lastDec[1].logBefore
    IN  /\ log # <<>> /\ Incomplete(Last(log)) =>
               /\ lastDec[1].res = (IF Opened(log) = 0 THEN CRYPTO_NEED_MORE
                                     ELSE CRYPTO_OK)
               /\ dctx[1].nonce = Last(log).n
               /\ Len(dctx[1].chunk) = Last(log).clen
        /\ prev # <<>> /\ Incomplete(Last(prev)) =>
               /\ log # <<>>
               /\ log[1].lenTried /\ log[1].lenOk
               /\ log[1].n = Last(prev).n
               /\ log[1].mlen = Last(prev).mlen
               /\ log[1].payTried => log[1].pn = sodium_increment(log[1].n)
                                      /\ log[1].payOk

\* a call returned NEED_MORE on a chunk whose length it had opened; the next
\* call opened the length again under the same nonce, and the payload
C13_Witness ==
    LET log  == lastDec[1].log
        prev == lastDec[1].logBefore
    IN  /\ prev # <<>> /\ Incomplete(Last(prev))
        /\ lastDec[1].resBefore = CRYPTO_NEED_MORE
        /\ log # <<>>
        /\ log[1].lenOk /\ log[1].n = Last(prev).n
        /\ log[1].payOk
        /\ lastDec[1].res = CRYPTO_OK

\* the bytes of s that begin an AEAD output, in order
IsFirstOfOutput(b) == b[1] = "c"
Outputs(s) == SelectSeq(s, IsFirstOfOutput)

\* C14: nonce agreement between the two ends. The encrypter's j-th AEAD call
\* (from 0) used nonce j, so chunk k has its length under 2k and its payload
\* under 2k+1; and every aead_chunk_decrypt invocation that works on chunk k
\* gives the AEAD nonce 2k for the length and 2k+1 for the payload, whatever
\* the segmentation and however many calls returned NEED_MORE before.
C14_NonceAgreement ==
    LET out  == Outputs(wire)
        nlen == nonce_len(method)
        log  == lastDec[1].log
    IN  /\ Len(out) = 2 * nchunks
        /\ \A j \in DOMAIN out :
               /\ out[j][2].n = NonceOf(j - 1, nlen)
               /\ (j % 2 = 1) => Len(out[j][2].m) = CHUNK_SIZE_LEN
        /\ \A i \in DOMAIN log :
               LET k == lastDec[1].openedBefore + i - 1
               IN  /\ log[i].n = NonceOf(2 * k, nlen)
                   /\ log[i].payTried => log[i].pn = NonceOf(2 * k + 1, nlen)
        /\ dctx[1].nonce = NonceOf(2 * opened[1], nlen)

\* the second chunk was met by a call that returned NEED_MORE, then opened by
\* a later call under nonces 2 and 3
C14_Witness ==
    LET log == lastDec[1].log
    IN  /\ lastDec[1].openedBefore = 1
        /\ lastDec[1].resBefore = CRYPTO_NEED_MORE
        /\ lastDec[1].logBefore # <<>>
        /\ log # <<>>
        /\ log[1].payOk
        /\ log[1].n[1] = 2 /\ log[1].pn[1] = 3
        /\ opened[1] = 2

\* C15: decrypt length validation. Whenever a length ciphertext authenticates
\* and decodes to 0 or to more than 0x3FFF, aead_decrypt returns ERROR, the
\* payload of that chunk is not given to the AEAD, the chunk stays in the
\* reassembly buffer and the nonce where it was, and the caller gets nothing.
C15_LengthValidated ==
    \A s \in Sess :
        LET log == lastDec[s].log
        IN  \A i \in DOMAIN log :
                log[i].lenOk /\ (log[i].mlen = 0 \/ log[i].mlen > 16383) =>
                    /\ i = Len(log)
                    /\ lastDec[s].res = CRYPTO_ERROR
                    /\ ~log[i].payTried
                    /\ Len(dctx[s].chunk) = log[i].clen
                    /\ dctx[s].nonce = log[i].n
                    /\ lastDec[s].bufSame

\* a call opened a chunk, then a length ciphertext that authenticated and
\* decoded to 0x4000: ERROR, payload and all still buffered
C15_Witness ==
    LET log == lastDec[1].log
    IN  /\ Len(log) = 2
        /\ log[1].payOk
        /\ log[2].lenOk /\ log[2].mlen = CHUNK_SIZE_MASK + 1
        /\ lastDec[1].res = CRYPTO_ERROR
        /\ Len(dctx[1].chunk) = chunk_len(method, 1)

\* C16: UDP minimum length. aead_decrypt_all returns ERROR for every input
\* shorter than key_len + tag_len, before it creates a context or consults the
\* replay guard; an input of key_len + tag_len bytes or more is not refused for
\* its length (a context is created for it), and one of exactly
\* key_len + tag_len bytes whose salt the guard does not hold reaches the AEAD.
C16_UdpMinimumLength ==
    lastAll.called =>
        LET len == Len(lastAll.in)
            min == key_len(method) + tag_len(method)
        IN  /\ len < min =>
                   /\ lastAll.res = CRYPTO_ERROR
                   /\ ~lastAll.inited /\ ~lastAll.checked /\ lastAll.guardSame
            /\ len >= min => lastAll.inited
            /\ len = min /\ ~(remote /\ lastAll.guardHad) => lastAll.tried

Verdict(r) == [res |-> r.res, p |-> IF r.res = CRYPTO_OK THEN r.buf ELSE <<>>]

\* the replay guard does not stop datagram d
SaltUnseen(d) == ~(remote /\ fs_sbf_check(guard, Take(d, key_len(method))) = 1)

\* C18: in UDP mode the salt is not bound to the ciphertext. Two datagrams that
\* differ only in their salt get the same code and the same plaintext from
\* aead_decrypt_all when the replay guard holds neither salt; and so a server
\* that accepted a datagram accepts it once more when it comes with a salt the
\* guard does not hold.
C18_SaltNotBound ==
    /\ \A i \in DOMAIN dgrams : \A d \in Deliveries(dgrams[i].d) :
           \A d2 \in {FlipAt(d, 1), FlipAt(d, key_len(method))} :
               SaltUnseen(d) /\ SaltUnseen(d2) =>
                   Verdict(aead_decrypt_all(method, remote, d, guard))
                       = Verdict(aead_decrypt_all(method, remote, d2, guard))
    /\ \A d \in accepted :
           /\ remote
           /\ lastAll.called
           /\ ~lastAll.guardHad
           /\ Drop(lastAll.in, key_len(method)) = Drop(d, key_len(method))
           => /\ lastAll.res = CRYPTO_OK
              /\ lastAll.buf = aead_cipher_decrypt(MasterKey, Zeros(nonce_len(method)),
                                                    Drop(d, key_len(method)),
                                                    tag_len(method)).p

\* a server accepted a datagram, then accepted it again under another salt
C18_Witness ==
    /\ remote
    /\ lastAll.called
    /\ lastAll.res = CRYPTO_OK
    /\ \E d \in accepted :
           /\ d # lastAll.in
           /\ Drop(d, key_len(method)) = Drop(lastAll.in, key_len(method))
           /\ Len(lastAll.buf) >= 1

\* the fs_sbf_check of thread s did not find the salt
PassedCheck(s) == thr[s].pc \in {"checked", "passed"}

\* C20: replay guard under concurrent sessions. Of two server threads that
\* present the same salt, in aead_decrypt or in aead_decrypt_all, whatever the
\* order of their fs_sbf_check and fs_sbf_add calls, at most one gets past the
\* replay check.
C20_AtMostOnePasses ==
    \A s, t \in Sess :
        /\ s # t
        /\ PassedCheck(s) /\ PassedCheck(t)
        => Take(thr[s].seg, key_len(method)) # Take(thr[t].seg, key_len(method))

\* C21: reassembly-buffer conservation. After every aead_decrypt call, whatever
\* it returned, the bytes given to the context so far are key_len for the salt
\* once init is set, plus the chunks popped so far, plus what the reassembly
\* buffer holds; and the buffer holds the last of the bytes given, in the order
\* they came.
C21_BufferConservation ==
    \A s \in Sess :
        LET len == Len(dctx[s].chunk)
        IN  /\ fed[s] = (IF dctx[s].init THEN key_len(method) ELSE 0)
                            + consumed[s] + len
            /\ dctx[s].chunk = SubSeq(Stream, fed[s] - len + 1, fed[s])

\* a context took the salt and a first chunk, and failed on the second: that
\* chunk, whole, is what its buffer holds
C21_Witness ==
    /\ dctx[1].init
    /\ consumed[1] = chunk_len(method, 1)
    /\ lastDec[1].res = CRYPTO_ERROR
    /\ Len(dctx[1].chunk) >= chunk_len(method, 1)
    /\ fed[1] = Len(wire)

\* C22: session initialisation happens once. No aead_encrypt or aead_decrypt
\* call takes init from true to false; a call on a context whose init is true
\* leaves its salt and its subkey as they were and its nonce no lower than it
\* was; and a call that sets init finds the nonce at zero, so that the nonce is
\* back at zero at no other call.
C22_InitOnce ==
    /\ lastEnc.called =>
           /\ lastEnc.initBefore =>
                  /\ ectx.init
                  /\ ectx.salt = lastEnc.saltBefore
                  /\ ectx.subkey = lastEnc.subkeyBefore
                  /\ NonceLeq(lastEnc.nonceBefore, ectx.nonce)
           /\ ~lastEnc.initBefore /\ ectx.init =>
                  lastEnc.nonceBefore = Zeros(nonce_len(method))
    /\ \A s \in Sess :
           lastDec[s].called =>
               /\ lastDec[s].initBefore =>
                      /\ dctx[s].init
                      /\ dctx[s].salt = lastDec[s].saltBefore
                      /\ dctx[s].subkey = lastDec[s].subkeyBefore
                      /\ NonceLeq(lastDec[s].nonceBefore, dctx[s].nonce)
               /\ ~lastDec[s].initBefore /\ dctx[s].init =>
                      lastDec[s].nonceBefore = Zeros(nonce_len(method))

\* the encrypt context was called again after its first chunk, and a decrypt
\* context, set up by an earlier call, was called again and opened a chunk
C22_Witness ==
    /\ lastEnc.called /\ lastEnc.initBefore /\ lastEnc.inlen > 0
    /\ ectx.nonce # Zeros(nonce_len(method))
    /\ lastDec[1].called /\ lastDec[1].initBefore
    /\ Opened(lastDec[1].log) >= 1

\* C23: every context that aead_encrypt_all or aead_decrypt_all sets up with
\* aead_ctx_init is given to aead_ctx_release before the call returns, whether
\* it returns success, an authentication failure or a replay hit.
C23_ContextReleased ==
    /\ \A i \in DOMAIN dgrams : dgrams[i].released
    /\ lastAll.called /\ lastAll.inited => lastAll.released

\* g without the marks of failing calls, and without salt
WorkingWithout(g, salt) == g \ {CheckFails, AddFails, salt}

\* C24: the replay guard fails open. A call of aead_decrypt that has the whole
\* salt of a context not yet set up, and a call of aead_decrypt_all that passed
\* the length test, is stopped by the guard exactly when fs_sbf_check returns 1;
\* when the check or the add returns an error the call returns, and leaves the
\* context, as it does over a working guard that does not hold the salt.
C24_GuardFailsOpen ==
    /\ \A s \in Sess :
           /\ lastDec[s].called
           /\ ~lastDec[s].initBefore
           /\ lastDec[s].chunkBefore + lastDec[s].inlen > key_len(method)
           => (dctx[s].init <=> ~(remote /\ lastDec[s].checkCode = 1))
    /\ lastAll.called /\ lastAll.inited =>
           (lastAll.tried <=> ~(remote /\ lastAll.checkCode = 1))
    /\ \A s \in Sess :
           LET seg  == SubSeq(Stream, fed[s] + 1, Len(wire))
               salt == Take(dctx[s].chunk \o seg, key_len(method))
               r    == aead_decrypt(method, remote, dctx[s], seg, guard)
               r0   == aead_decrypt(method, remote, dctx[s], seg,
                                    WorkingWithout(guard, salt))
           IN  ~dctx[s].init /\ fs_sbf_check(guard, salt) # 1 =>
                   /\ r.res = r0.res /\ r.buf = r0.buf
                   /\ r.ctx = r0.ctx /\ r.log = r0.log
    /\ \A i \in DOMAIN dgrams :
           LET d    == dgrams[i].d
               salt == Take(d, key_len(method))
               r    == aead_decrypt_all(method, remote, d, guard)
               r0   == aead_decrypt_all(method, remote, d, WorkingWithout(guard, salt))
           IN  fs_sbf_check(guard, salt) # 1 =>
                   r.res = r0.res /\ r.buf = r0.buf /\ r.tried = r0.tried

\* the guard held the salt of the stream and its check failed: the second
\* connection that brought the stream had its chunk opened
C24_Witness ==
    \E s \in Sess :
        /\ lastDec[s].called
        /\ lastDec[s].guardHad
        /\ lastDec[s].checkCode = -1
        /\ lastDec[s].res = CRYPTO_OK
        /\ Opened(lastDec[s].log) >= 1

\* C25: NEED_MORE is without effect on a context that is set up. An
\* aead_decrypt call that returns NEED_MORE on a context whose init is true
\* leaves init, salt, subkey and nonce as they were, pops nothing, hands nothing
\* to the caller, and leaves in the reassembly buffer what was there followed by
\* the input; so the context, and the plaintext handed over so far, are what
\* one call with all the bytes given so far would have left.
C25_NeedMoreIdle ==
    \A s \in Sess :
        /\ lastDec[s].called /\ lastDec[s].initBefore
               /\ lastDec[s].res = CRYPTO_NEED_MORE =>
               /\ dctx[s].init
               /\ dctx[s].salt = lastDec[s].saltBefore
               /\ dctx[s].subkey = lastDec[s].subkeyBefore
               /\ dctx[s].nonce = lastDec[s].nonceBefore
               /\ opened[s] = lastDec[s].openedBefore
               /\ lastDec[s].bufSame
               /\ Len(dctx[s].chunk) = lastDec[s].chunkBefore + lastDec[s].inlen
               /\ dctx[s].chunk =
                      SubSeq(Stream, fed[s] - Len(dctx[s].chunk) + 1, fed[s])
        /\ LET r == aead_decrypt(method, remote, aead_ctx_init(method, FALSE, 0),
                                 SubSeq(Stream, 1, fed[s]), {})
           IN  lastDec[s].called /\ lastDec[s].res = CRYPTO_NEED_MORE
                   /\ dctx[s].init /\ ~lastDec[s].guardHad =>
                   /\ r.ctx = dctx[s]
                   /\ plain[s] = IF r.res = CRYPTO_OK THEN r.buf ELSE <<>>

\* a context that is set up returned NEED_MORE twice in a row, the second time
\* after it had opened the length of a chunk that was not yet whole
C25_Witness ==
    /\ lastDec[1].called /\ lastDec[1].initBefore
    /\ lastDec[1].resBefore = CRYPTO_NEED_MORE
    /\ lastDec[1].res = CRYPTO_NEED_MORE
    /\ lastDec[1].inlen >= 1
    /\ lastDec[1].log # <<>>
    /\ Incomplete(lastDec[1].log[1])

\* C19: ERROR is absorbing for a decrypt context. Once aead_decrypt has
\* returned ERROR on a context (replayed salt, length or payload that fails
\* authentication, length out of range), every later call on that context,
\* whatever its input, the empty input included, returns ERROR and leaves the
\* caller's buffer as passed.
C19_ErrorAbsorbing ==
    \A s \in Sess :
        lastDec[s].called /\ lastDec[s].resBefore = CRYPTO_ERROR
            => lastDec[s].res = CRYPTO_ERROR /\ lastDec[s].bufSame

\* a context that failed on a payload was called again with no input, and
\* failed again, now on the length
C19_Witness ==
    \E s \in Sess :
        /\ lastDec[s].resBefore = CRYPTO_ERROR
        /\ lastDec[s].logBefore # <<>>
        /\ Last(lastDec[s].logBefore).payTried
        /\ lastDec[s].inlen = 0
        /\ lastDec[s].res = CRYPTO_ERROR
        /\ lastDec[s].log # <<>>
        /\ ~lastDec[s].log[1].lenOk

=============================================================================
